---- MODULE Spec2Model ----
(***************************************************************************)
(* Wallet withdrawal edge function (serve handler).                        *)
(*                                                                         *)
(* Every invocation of the handler is a process that runs the code from    *)
(* one await to the next as one atomic step (JavaScript runs to the next   *)
(* await without preemption).  The shared state is the user's row of       *)
(* user_central_wallets, the wallet_transactions table and the transfers   *)
(* the payment provider has accepted.  Every outcome of the identity,      *)
(* database and provider calls is an input of the step that awaits it.     *)
(*                                                                         *)
(* Spec is the handler.  FeeSpec evaluates calculateFee and PhoneSpec the  *)
(* phone number forms on their own, over ranges of inputs; ProviderSpec    *)
(* the channel lookup of one invocation.  ModalSpec is the                 *)
(* MakeContributionModal component: its state, its top-up effect and       *)
(* handleSubmit.                                                           *)
(***************************************************************************)
EXTENDS Integers, Sequences, FiniteSets, TLC

VARIABLES
    balance,        \* user_central_wallets.balance of the user
    ledger,         \* rows of wallet_transactions, in insertion order
    transfers,      \* transfers accepted by the provider (amount in minor units)
    started,        \* number of invocations received so far
    pc,             \* per invocation: the await the handler is suspended at
    req,            \* per invocation: the request (HTTP method and JSON body)
    wallet,         \* per invocation: wallet.balance as read by the select
    resp,           \* per invocation: the Response returned, NoResponse before
    log,            \* per invocation: the calls awaited so far with their outcomes
    walletWrite,    \* per invocation: stored balance before and after its update
    earlier,        \* per invocation: the invocations that had succeeded, their write
                    \* being the stored balance, when it arrived
    initialBalance, \* the balance of the wallet row before the first request
    calc,           \* evaluation of a pure function of the handler (its own specifications)
    modal           \* state of the MakeContributionModal component (its own specification)

vars == <<balance, ledger, transfers, started, pc, req, wallet,
          resp, log, walletWrite, earlier, initialBalance, calc, modal>>

\* Two request slots of the runtime: invocations of the same user may overlap.
Procs == {"r1", "r2"}

\* Number of invocations received over a behaviour.
MaxInvocations == 2

\* Balances the wallet row may hold when the first request arrives.
InitBalances == {100, 200}

-----------------------------------------------------------------------------
(* Requests *)

\* JSON value of the amount field: a number, a string or absent.
Num(n) == [t |-> "number", v |-> n]
NotANumber == [t |-> "string", v |-> 0]
Undefined == [t |-> "undefined", v |-> 0]

ValidAmounts == {Num(25), Num(150)}
AmountInputs == {Undefined, NotANumber, Num(0 - 5)} \cup ValidAmounts

PaymentMethods == {"bank", "mpesa", "airtel", "card"}

\* destinationDetails: absent, or an object with some of the four fields.
NoDetails == [present |-> FALSE, account_number |-> FALSE, bank_name |-> FALSE,
              account_name |-> FALSE, phone_number |-> FALSE]
Details(an, bn, nm, ph) ==
    [present |-> TRUE, account_number |-> an, bank_name |-> bn,
     account_name |-> nm, phone_number |-> ph]

DetailInputs == {NoDetails,
                 Details(FALSE, FALSE, FALSE, FALSE),
                 Details(TRUE, FALSE, TRUE, FALSE),
                 Details(TRUE, TRUE, TRUE, FALSE),
                 Details(FALSE, FALSE, FALSE, TRUE)}

Body(a, m, d) == [json |-> TRUE, amount |-> a, paymentMethod |-> m, destinationDetails |-> d]
\* A body req.json() cannot parse (or that is not an object).
MalformedBody == [json |-> FALSE, amount |-> Undefined, paymentMethod |-> "card",
                  destinationDetails |-> NoDetails]

BankDetails == Details(TRUE, TRUE, TRUE, FALSE)
PhoneDetails == Details(FALSE, FALSE, FALSE, TRUE)

Bodies ==
    {Body(a, "bank", d) : a \in AmountInputs, d \in {NoDetails, BankDetails}}
      \cup {Body(Num(150), m, d) : m \in {"bank", "mpesa"}, d \in DetailInputs}
      \cup {Body(a, "mpesa", PhoneDetails) : a \in ValidAmounts}
      \cup {Body(Num(150), m, PhoneDetails) : m \in PaymentMethods}
      \cup {MalformedBody}

\* The body before req.json() has returned.
NoBody == [json |-> FALSE, amount |-> Undefined, paymentMethod |-> "",
           destinationDetails |-> NoDetails]

Request(h, b) == [method |-> h, body |-> b]
NoRequest == Request("none", NoBody)

-----------------------------------------------------------------------------
(* Responses *)

NoResponse == [status |-> 0, success |-> FALSE, error |-> "", code |-> "",
               amount |-> 0, fee |-> 0, netAmount |-> 0, newBalance |-> 0]

ErrorResponse(st, msg, cd, f) ==
    [status |-> st, success |-> FALSE, error |-> msg, code |-> cd,
     amount |-> 0, fee |-> f, netAmount |-> 0, newBalance |-> 0]

\* new Response(null, { headers: corsHeaders }): status defaults to 200.
PreflightResponse ==
    [status |-> 200, success |-> FALSE, error |-> "", code |-> "preflight",
     amount |-> 0, fee |-> 0, netAmount |-> 0, newBalance |-> 0]

Unauthorized == ErrorResponse(401, "Unauthorized", "", 0)
InvalidAmountResponse == ErrorResponse(400, "Please enter a valid withdrawal amount", "invalid_amount", 0)
DetailsRequired == ErrorResponse(400, "Destination details required", "", 0)
BankIncomplete == ErrorResponse(400, "Bank account details incomplete", "", 0)
PhoneRequired == ErrorResponse(400, "Phone number required for mobile money withdrawal", "", 0)
WalletNotFound == ErrorResponse(404, "Wallet not found", "", 0)
InsufficientBalance == ErrorResponse(400, "Insufficient balance", "", 0)
NotConfigured == ErrorResponse(500, "Payment service not configured", "", 0)
AmountTooLow(f) == ErrorResponse(400, "Withdrawal amount too low", "amount_too_low", f)
PaymentServiceError == ErrorResponse(500, "Payment service error", "", 0)
TransferNetworkError == ErrorResponse(500, "Network error. Please try again.", "", 0)
WalletUpdateFailed == ErrorResponse(500, "Failed to update wallet", "", 0)

\* Variant without the catch block: the exception leaves the handler.
InternalServerErrorEscapes == ErrorResponse(0, "uncaught exception", "", 0)
\* The catch block of the handler: any exception becomes a 500 response.
InternalServerError == ErrorResponse(500, "Internal server error", "", 0)

-----------------------------------------------------------------------------
(* Strings of the provider: a text is modelled by its characters *)

Chars(s) ==
    CASE s = "Account number is invalid" -> <<"A", "c", "c", "o", "u", "n", "t", " ", "n", "u", "m", "b", "e", "r", " ", "i", "s", " ", "i", "n", "v", "a", "l", "i", "d">>
      [] s = "Recipient not allowed" -> <<"R", "e", "c", "i", "p", "i", "e", "n", "t", " ", "n", "o", "t", " ", "a", "l", "l", "o", "w", "e", "d">>
      [] s = "Your balance is not enough to fulfil this request" -> <<"Y", "o", "u", "r", " ", "b", "a", "l", "a", "n", "c", "e", " ", "i", "s", " ", "n", "o", "t", " ", "e", "n", "o", "u", "g", "h", " ", "t", "o", " ", "f", "u", "l", "f", "i", "l", " ", "t", "h", "i", "s", " ", "r", "e", "q", "u", "e", "s", "t">>
      [] s = "You cannot initiate third party payouts" -> <<"Y", "o", "u", " ", "c", "a", "n", "n", "o", "t", " ", "i", "n", "i", "t", "i", "a", "t", "e", " ", "t", "h", "i", "r", "d", " ", "p", "a", "r", "t", "y", " ", "p", "a", "y", "o", "u", "t", "s">>
      [] s = "Invalid key" -> <<"I", "n", "v", "a", "l", "i", "d", " ", "k", "e", "y">>
      [] s = "account number is invalid" -> <<"a", "c", "c", "o", "u", "n", "t", " ", "n", "u", "m", "b", "e", "r", " ", "i", "s", " ", "i", "n", "v", "a", "l", "i", "d">>
      [] s = "balance is not enough" -> <<"b", "a", "l", "a", "n", "c", "e", " ", "i", "s", " ", "n", "o", "t", " ", "e", "n", "o", "u", "g", "h">>
      [] s = "fetch failed" -> <<"f", "e", "t", "c", "h", " ", "f", "a", "i", "l", "e", "d">>
      [] s = "Payment service error" -> <<"P", "a", "y", "m", "e", "n", "t", " ", "s", "e", "r", "v", "i", "c", "e", " ", "e", "r", "r", "o", "r">>
      [] s = "MPESA" -> <<"M", "P", "E", "S", "A">>
      [] s = "M-PESA" -> <<"M", "-", "P", "E", "S", "A">>
      [] s = "m-pesa" -> <<"m", "-", "p", "e", "s", "a">>
      [] s = "mpesa" -> <<"m", "p", "e", "s", "a">>
      [] s = "ATL_KE" -> <<"A", "T", "L", "_", "K", "E">>
      [] s = "atl_ke" -> <<"a", "t", "l", "_", "k", "e">>
      [] s = "Airtel Money" -> <<"A", "i", "r", "t", "e", "l", " ", "M", "o", "n", "e", "y">>
      [] s = "airtel-money" -> <<"a", "i", "r", "t", "e", "l", "-", "m", "o", "n", "e", "y">>
      [] s = "airtel" -> <<"a", "i", "r", "t", "e", "l">>
      [] s = "MTN" -> <<"M", "T", "N">>
      [] s = "mtn" -> <<"m", "t", "n">>
      [] s = "Transfer failed" -> <<"T", "r", "a", "n", "s", "f", "e", "r", " ", "f", "a", "i", "l", "e", "d">>
      [] s = "0712345678" -> <<"0", "7", "1", "2", "3", "4", "5", "6", "7", "8">>
      [] s = "+254712345678" -> <<"+", "2", "5", "4", "7", "1", "2", "3", "4", "5", "6", "7", "8">>
      [] s = "254712345678" -> <<"2", "5", "4", "7", "1", "2", "3", "4", "5", "6", "7", "8">>
      [] s = "712345678" -> <<"7", "1", "2", "3", "4", "5", "6", "7", "8">>
      [] s = "254" -> <<"2", "5", "4">>
      [] s = "Safaricom" -> <<"S", "a", "f", "a", "r", "i", "c", "o", "m">>
      [] s = "safaricom" -> <<"s", "a", "f", "a", "r", "i", "c", "o", "m">>
      [] s = "SAF" -> <<"S", "A", "F">>
      [] s = "Safaricom MPesa" -> <<"S", "a", "f", "a", "r", "i", "c", "o", "m", " ", "M", "P", "e", "s", "a">>
      [] s = "ATL" -> <<"A", "T", "L">>
      [] s = "Bharti" -> <<"B", "h", "a", "r", "t", "i">>
      [] s = "AIRTEL-ke" -> <<"A", "I", "R", "T", "E", "L", "-", "k", "e">>
      [] s = "PESA" -> <<"P", "E", "S", "A">>
      [] s = "Pesa Link" -> <<"P", "e", "s", "a", " ", "L", "i", "n", "k">>
      [] s = "pesa-link" -> <<"p", "e", "s", "a", "-", "l", "i", "n", "k">>
      [] s = "" -> <<>>

Upper == <<"A", "B", "C", "D", "E", "F", "G", "H", "I", "J", "K", "L", "M", "N", "O", "P", "Q", "R", "S", "T", "U", "V", "W", "X", "Y", "Z">>
Lower == <<"a", "b", "c", "d", "e", "f", "g", "h", "i", "j", "k", "l", "m", "n", "o", "p", "q", "r", "s", "t", "u", "v", "w", "x", "y", "z">>

\* String.prototype.toLowerCase, character by character.
ToLowerCase(cs) ==
    [i \in 1..Len(cs) |->
        IF \E k \in 1..26 : Upper[k] = cs[i]
        THEN Lower[CHOOSE k \in 1..26 : Upper[k] = cs[i]]
        ELSE cs[i]]

\* String.prototype.toUpperCase, character by character.
ToUpperCase(cs) ==
    [i \in 1..Len(cs) |->
        IF \E k \in 1..26 : Lower[k] = cs[i]
        THEN Upper[CHOOSE k \in 1..26 : Lower[k] = cs[i]]
        ELSE cs[i]]

\* String.prototype.includes.
Includes(cs, sub) ==
    \E i \in 0..(Len(cs) - Len(sub)) : SubSeq(cs, i + 1, i + Len(sub)) = sub

\* String.prototype.startsWith.
StartsWith(cs, prefix) ==
    Len(cs) >= Len(prefix) /\ SubSeq(cs, 1, Len(prefix)) = prefix

-----------------------------------------------------------------------------
(* Phone number forms *)

IsWhitespace(c) == c = " "

\* rawPhone.replace(/\s+/g, '').replace(/-/g, ''), after String(...).trim().
PhoneNoSpaces(rawPhone) ==
    LET NotHyphen(c) == c # "-"
        NotSpace(c) == ~IsWhitespace(c)
    IN  SelectSeq(SelectSeq(rawPhone, NotSpace), NotHyphen)

\* Variant: a leading plus sign is kept.
StripPlusNever(cs) == cs
\* phoneNoSpaces.replace(/^\+/, '')
StripPlus(cs) == IF StartsWith(cs, <<"+">>) THEN Tail(cs) ELSE cs

\* intlPhone: the number with the country code 254 in front.
IntlPhone(rawPhone) ==
    LET intlPhone == StripPlus(PhoneNoSpaces(rawPhone))
    IN  IF StartsWith(intlPhone, <<"0">>) THEN Chars("254") \o Tail(intlPhone)
        ELSE IF ~StartsWith(intlPhone, Chars("254")) THEN Chars("254") \o intlPhone
        ELSE intlPhone

\* localPhone: 0 in front of the number without its country code.
LocalPhone(rawPhone) ==
    LET intlPhone == IntlPhone(rawPhone)
    IN  IF StartsWith(intlPhone, Chars("254"))
        THEN <<"0">> \o SubSeq(intlPhone, 4, Len(intlPhone))
        ELSE PhoneNoSpaces(rawPhone)

\* destinationDetails.phone_number of the requests that carry one.
PhoneNumber == Chars("0712345678")

-----------------------------------------------------------------------------
(* Decisions of the handler *)

\* !amount
Falsy(a) == a.t = "undefined" \/ (a.t = "number" /\ a.v = 0)

\* !amount || typeof amount !== 'number' || amount <= 0
InvalidAmount(a) == Falsy(a) \/ a.t # "number" \/ a.v <= 0

BankDetailsIncomplete(d) == ~d.account_number \/ ~d.bank_name \/ ~d.account_name

\* Variant with the destinationDetails check ahead of the amount check.
ValidationResponseDetailsFirst(b) ==
    IF ~b.destinationDetails.present THEN DetailsRequired
    ELSE IF InvalidAmount(b.amount) THEN InvalidAmountResponse
    ELSE IF b.paymentMethod = "bank"
         THEN (IF BankDetailsIncomplete(b.destinationDetails) THEN BankIncomplete ELSE NoResponse)
         ELSE (IF ~b.destinationDetails.phone_number THEN PhoneRequired ELSE NoResponse)
\* The checks between req.json() and the wallet select, in the order of the
\* code; NoResponse when the request passes all of them.
ValidationResponse(b) ==
    IF InvalidAmount(b.amount) THEN InvalidAmountResponse
    ELSE IF ~b.destinationDetails.present THEN DetailsRequired
    ELSE IF b.paymentMethod = "bank"
         THEN (IF BankDetailsIncomplete(b.destinationDetails) THEN BankIncomplete ELSE NoResponse)
         ELSE (IF ~b.destinationDetails.phone_number THEN PhoneRequired ELSE NoResponse)

\* Variants: the balance check left out, and the comparison reversed.
BalanceTooLowUnchecked(w, amt) == FALSE
BalanceTooLowInverted(w, amt) == w > amt
\* wallet.balance < amount
BalanceTooLow(w, amt) == w < amt

Max(a, b) == IF a >= b THEN a ELSE b

\* Math.floor(amt * rate) for rate = perMille / 1000.
FloorRate(amt, perMille) == (amt * perMille) \div 1000

\* Variant: the tier bounds are exclusive.
calculateFeeExclusiveBounds(amt, method) ==
    CASE method = "mpesa" ->
            IF amt < 100 THEN 0
            ELSE IF amt < 2500 THEN 15
            ELSE IF amt < 3500 THEN 25
            ELSE IF amt < 5000 THEN 30
            ELSE IF amt < 7500 THEN 45
            ELSE IF amt < 10000 THEN 50
            ELSE Max(50, FloorRate(amt, 5))
      [] method = "airtel" ->
            IF amt < 100 THEN 0
            ELSE IF amt < 2500 THEN 15
            ELSE IF amt < 5000 THEN 30
            ELSE Max(50, FloorRate(amt, 5))
      [] method = "bank" -> Max(25, FloorRate(amt, 1))
      [] OTHER -> 0
\* Variant: the percentage fee without its minimum of 50.
calculateFeeNoMinimum(amt, method) ==
    CASE method = "mpesa" ->
            IF amt <= 100 THEN 0
            ELSE IF amt <= 2500 THEN 15
            ELSE IF amt <= 3500 THEN 25
            ELSE IF amt <= 5000 THEN 30
            ELSE IF amt <= 7500 THEN 45
            ELSE IF amt <= 10000 THEN 50
            ELSE FloorRate(amt, 5)
      [] method = "airtel" ->
            IF amt <= 100 THEN 0
            ELSE IF amt <= 2500 THEN 15
            ELSE IF amt <= 5000 THEN 30
            ELSE FloorRate(amt, 5)
      [] method = "bank" -> Max(25, FloorRate(amt, 1))
      [] OTHER -> 0
\* calculateFee(amt, method); amt * 0.005 and amt * 0.001 in floating point
\* have the floor of the exact product for every integer amount in range.
calculateFee(amt, method) ==
    CASE method = "mpesa" ->
            IF amt <= 100 THEN 0
            ELSE IF amt <= 2500 THEN 15
            ELSE IF amt <= 3500 THEN 25
            ELSE IF amt <= 5000 THEN 30
            ELSE IF amt <= 7500 THEN 45
            ELSE IF amt <= 10000 THEN 50
            ELSE Max(50, FloorRate(amt, 5))
      [] method = "airtel" ->
            IF amt <= 100 THEN 0
            ELSE IF amt <= 2500 THEN 15
            ELSE IF amt <= 5000 THEN 30
            ELSE Max(50, FloorRate(amt, 5))
      [] method = "bank" -> Max(25, FloorRate(amt, 1))
      [] OTHER -> 0

\* Variant: a net amount of zero passes.
NetTooLowNegativeOnly(net) == net < 0
\* netAmount <= 0
NetTooLow(net) == net <= 0

\* Variant: the update stores the balance that was read.
NewBalanceNoDebit(w, amt) == w
\* balance: wallet.balance - amount
NewBalance(w, amt) == w - amt

\* amount: Math.round(netAmount * 100)
AmountInKobo(net) == net * 100

-----------------------------------------------------------------------------
(* Answers of the provider *)

\* Entries of GET /bank?currency=KES&type=mobile_money.
MpesaChannel == [code |-> "MPESA", name |-> "M-PESA", slug |-> "m-pesa"]
AirtelChannel == [code |-> "ATL_KE", name |-> "Airtel Money", slug |-> "airtel-money"]
MtnChannel == [code |-> "MTN", name |-> "MTN", slug |-> "mtn"]
BankLists == {<<>>, <<MtnChannel, MpesaChannel>>, <<AirtelChannel, MtnChannel>>,
              <<MpesaChannel, AirtelChannel>>}

\* Variant: the code and the texts are compared as they come, without
\* toUpperCase and toLowerCase.
MatchesProviderCaseSensitive(bank, method) ==
    LET name == Chars(bank.name)
        slug == Chars(bank.slug)
        code == Chars(bank.code)
    IN  IF method = "mpesa"
        THEN \/ code = Chars("MPESA")
             \/ Includes(name, Chars("m-pesa")) \/ Includes(name, Chars("mpesa"))
             \/ Includes(slug, Chars("m-pesa")) \/ Includes(slug, Chars("mpesa"))
        ELSE IF method = "airtel"
        THEN \/ code = Chars("ATL_KE")
             \/ Includes(name, Chars("airtel")) \/ Includes(slug, Chars("airtel"))
        ELSE FALSE
\* The predicate of banksData.data.find.
MatchesProvider(bank, method) ==
    LET name == ToLowerCase(Chars(bank.name))
        slug == ToLowerCase(Chars(bank.slug))
        code == ToUpperCase(Chars(bank.code))
    IN  IF method = "mpesa"
        THEN \/ code = Chars("MPESA")
             \/ Includes(name, Chars("m-pesa")) \/ Includes(name, Chars("mpesa"))
             \/ Includes(slug, Chars("m-pesa")) \/ Includes(slug, Chars("mpesa"))
        ELSE IF method = "airtel"
        THEN \/ code = Chars("ATL_KE")
             \/ Includes(name, Chars("airtel")) \/ Includes(slug, Chars("airtel"))
        ELSE FALSE

ProviderFound(list, method) == \E i \in 1..Len(list) : MatchesProvider(list[i], method)

\* Messages of a rejected recipient creation ("" when the answer has none).
RecipientMessages == {"Account number is invalid", "Recipient not allowed", ""}

\* Messages of a rejected channel list.
BanksMessages == {"Invalid key", ""}

\* Code and message of a rejected transfer.
Rejection(c, m) == [code |-> c, message |-> m]
TransferRejections ==
    {Rejection("insufficient_balance", "You cannot initiate third party payouts"),
     Rejection("", "Your balance is not enough to fulfil this request"),
     Rejection("transfer_unavailable", "You cannot initiate third party payouts"),
     Rejection("", "")}

\* Variant: any failure of the first attempt is retried.
InvalidAccountNumberAnyMessage(message) == TRUE
\* recipientResp.message.toLowerCase().includes('account number is invalid')
InvalidAccountNumber(message) ==
    Includes(ToLowerCase(Chars(message)), Chars("account number is invalid"))

\* message || fallback
OrElse(message, fallback) == IF message = "" THEN fallback ELSE message

\* The result of createRecipientWithPhone for an outcome of its fetch.
RecipientResult(out, m) ==
    CASE out = "network" -> [ok |-> FALSE, message |-> "fetch failed"]
      [] out = "parse" -> [ok |-> FALSE, message |-> "Payment service error"]
      [] out = "reject" -> [ok |-> FALSE, message |-> m]
      [] OTHER -> [ok |-> TRUE, message |-> ""]

\* Variant: only the code of the rejection is inspected.
TransferErrorMessageByCodeOnly(r) ==
    IF r.code = "insufficient_balance"
    THEN "Service temporarily unavailable. Please try again later or contact support."
    ELSE OrElse(r.message, "Transfer failed")
\* The error of a rejected transfer as returned to the caller.
TransferErrorMessage(r) ==
    LET errorMessage == OrElse(r.message, "Transfer failed")
    IN  IF \/ r.code = "insufficient_balance"
           \/ Includes(ToLowerCase(Chars(errorMessage)), Chars("balance is not enough"))
        THEN "Service temporarily unavailable. Please try again later or contact support."
        ELSE errorMessage

-----------------------------------------------------------------------------
(* State *)

NoWrite == [done |-> FALSE, before |-> 0, after |-> 0]

\* An awaited call that has returned: its outcome, what the handler sent
\* (account_number of a recipient, amount of a transfer) and the code and
\* message of the provider's answer.
ProviderCall(op, out, sent, code, message) ==
    [op |-> op, out |-> out, sent |-> sent, code |-> code, message |-> message]
Call(op, out) == ProviderCall(op, out, "", "", "")

NoCalc == [fn |-> "none"]
\* The component is not rendered.
NotMounted == [mounted |-> FALSE]

Init ==
    /\ balance \in InitBalances
    /\ ledger = <<>>
    /\ transfers = <<>>
    /\ started = 0
    /\ pc = [p \in Procs |-> "idle"]
    /\ req = [p \in Procs |-> NoRequest]
    /\ wallet = [p \in Procs |-> 0]
    /\ resp = [p \in Procs |-> NoResponse]
    /\ log = [p \in Procs |-> <<>>]
    /\ walletWrite = [p \in Procs |-> NoWrite]
    /\ earlier = [p \in Procs |-> {}]
    /\ initialBalance = balance
    /\ calc = NoCalc
    /\ modal = NotMounted

\* The values of the request the code works with once validation has passed.
Amount(p) == req[p].body.amount.v
Method(p) == req[p].body.paymentMethod
Fee(p) == calculateFee(Amount(p), Method(p))
\* Variant: the fee is not taken off.
NetAmountGross(p) == Amount(p)
\* const netAmount = amount - fee
NetAmount(p) == Amount(p) - Fee(p)

\* The handler awaits the next call: it stays suspended at pc "next".
Await(p, next, call) ==
    /\ pc' = [pc EXCEPT ![p] = next]
    /\ log' = [log EXCEPT ![p] = Append(@, call)]
    /\ resp' = resp

\* The handler returns a Response.
Return(p, r, call) ==
    /\ pc' = [pc EXCEPT ![p] = "done"]
    /\ log' = [log EXCEPT ![p] = Append(@, call)]
    /\ resp' = [resp EXCEPT ![p] = r]

\* An exception reaches the catch block of the handler.
Throw(p, call) == Return(p, InternalServerError, call)

-----------------------------------------------------------------------------
(* Steps of the handler *)

\* A request arrives; an OPTIONS request is answered at once, any other
\* request creates the client and awaits auth.getUser().
Serve(p) ==
    /\ pc[p] \in {"idle", "done"}
    /\ started < MaxInvocations
    /\ started' = started + 1
    /\ \E h \in {"OPTIONS", "POST"} :
         /\ req' = [req EXCEPT ![p] = Request(h, NoBody)]
         /\ IF h = "OPTIONS"
            THEN /\ pc' = [pc EXCEPT ![p] = "done"]
                 /\ resp' = [resp EXCEPT ![p] = PreflightResponse]
            ELSE /\ pc' = [pc EXCEPT ![p] = "getUser"]
                 /\ resp' = [resp EXCEPT ![p] = NoResponse]
    /\ log' = [log EXCEPT ![p] = <<>>]
    /\ wallet' = [wallet EXCEPT ![p] = 0]
    /\ walletWrite' = [walletWrite EXCEPT ![p] = NoWrite]
    /\ earlier' = [q \in Procs |->
            IF q = p
            THEN {r \in Procs \ {p} : /\ pc[r] = "done" /\ resp[r].success
                                      /\ walletWrite[r].done
                                      /\ walletWrite[r].after = balance}
            ELSE earlier[q] \ {p}]
    /\ UNCHANGED <<balance, ledger, transfers, initialBalance, calc, modal>>

\* auth.getUser() returns: userError || !user answers 401, otherwise the
\* handler awaits req.json().
GetUser(p) ==
    /\ pc[p] = "getUser"
    /\ \E out \in {"ok", "fail", "throw"} :
         CASE out = "ok" -> Await(p, "json", Call("getUser", out))
           [] out = "fail" -> Return(p, Unauthorized, Call("getUser", out))
           [] out = "throw" -> Throw(p, Call("getUser", out))
    /\ UNCHANGED <<balance, ledger, transfers, started, req, wallet, walletWrite, earlier, initialBalance, calc, modal>>

\* req.json() returns the body (or throws): the input checks run and the
\* wallet select is issued.
ParseBody(p) ==
    /\ pc[p] = "json"
    /\ \E b \in Bodies :
         /\ req' = [req EXCEPT ![p].body = b]
         /\ IF ~b.json
            THEN Throw(p, Call("json", "throw"))
            ELSE IF ValidationResponse(b) # NoResponse
            THEN Return(p, ValidationResponse(b), Call("json", "ok"))
            ELSE Await(p, "wallet", Call("json", "ok"))
    /\ UNCHANGED <<balance, ledger, transfers, started, wallet, walletWrite, earlier, initialBalance, calc, modal>>

\* The code from the answer of the wallet select to the first provider call:
\* balance check, key check, fee and net amount check.
AfterWallet(p, w, paystackSecretKey, call) ==
    IF BalanceTooLow(w, Amount(p)) THEN Return(p, InsufficientBalance, call)
    ELSE IF ~paystackSecretKey THEN Return(p, NotConfigured, call)
    ELSE IF NetTooLow(NetAmount(p)) THEN Return(p, AmountTooLow(Fee(p)), call)
    ELSE IF Method(p) \in {"mpesa", "airtel"} THEN Await(p, "banks", call)
    ELSE Await(p, "recipient_bank", call)

\* The select of user_central_wallets.balance returns; key is whether
\* PAYSTACK_SECRET_KEY is set in the environment.
WalletSelect(p) ==
    /\ pc[p] = "wallet"
    /\ \E out \in {"ok", "fail", "throw"}, key \in BOOLEAN :
         CASE out = "ok" ->
                /\ wallet' = [wallet EXCEPT ![p] = balance]
                /\ AfterWallet(p, balance, key, Call("wallet_select", out))
           [] out = "fail" ->
                /\ wallet' = wallet
                /\ Return(p, WalletNotFound, Call("wallet_select", out))
           [] out = "throw" ->
                /\ wallet' = wallet
                /\ Throw(p, Call("wallet_select", out))
    /\ UNCHANGED <<balance, ledger, transfers, started, req, walletWrite, earlier, initialBalance, calc, modal>>

ProviderNotAvailable == ErrorResponse(400, "provider not available", "", 0)

\* The code after a channel list was answered: banksData.data.find and the
\* !provider check.
BanksAnswer(p, list) ==
    IF ProviderFound(list, Method(p))
    THEN Await(p, "recipient_intl", Call("banks", "ok"))
    ELSE Return(p, ProviderNotAvailable, Call("banks", "ok"))

\* GET /bank answers: the channel of the payment method is looked up and the
\* recipient creation with the international phone form is issued.
FetchBanks(p) ==
    /\ pc[p] = "banks"
    /\ \/ \E out \in {"network", "null", "nodata"} : Throw(p, Call("banks", out))
       \/ Return(p, PaymentServiceError, Call("banks", "parse"))
       \/ \E m \in BanksMessages :
            Return(p, ErrorResponse(400, OrElse(m, "Failed to fetch mobile money providers"), "", 0),
                   Call("banks", "reject"))
       \/ \E list \in BankLists : BanksAnswer(p, list)
    /\ UNCHANGED <<balance, ledger, transfers, started, req, wallet, walletWrite, earlier, initialBalance, calc, modal>>

RecipientOutcomes == {"network", "parse", "reject", "nodata", "ok"}

\* The code after the last createRecipientWithPhone call of the invocation.
AfterRecipient(p, r, call) ==
    IF ~r.ok
    THEN Return(p, ErrorResponse(400, OrElse(r.message, "Failed to create recipient"), "", 0), call)
    ELSE IF call.out = "nodata" THEN Throw(p, call)
    ELSE Await(p, "transfer", call)

\* createRecipientWithPhone(intlPhone) returns.
RecipientIntl(p) ==
    /\ pc[p] = "recipient_intl"
    /\ \E out \in RecipientOutcomes, m \in RecipientMessages :
         /\ out # "reject" => m = ""
         /\ LET r == RecipientResult(out, m)
                call == ProviderCall("recipient_intl", out, IntlPhone(PhoneNumber), "", r.message)
            IN  IF ~r.ok /\ InvalidAccountNumber(r.message)
                THEN Await(p, "recipient_local", call)
                ELSE AfterRecipient(p, r, call)
    /\ UNCHANGED <<balance, ledger, transfers, started, req, wallet, walletWrite, earlier, initialBalance, calc, modal>>

\* createRecipientWithPhone(localPhone) returns.
RecipientLocal(p) ==
    /\ pc[p] = "recipient_local"
    /\ \E out \in RecipientOutcomes, m \in RecipientMessages :
         /\ out # "reject" => m = ""
         /\ LET r == RecipientResult(out, m)
            IN  AfterRecipient(p, r, ProviderCall("recipient_local", out, LocalPhone(PhoneNumber),
                                                  "", r.message))
    /\ UNCHANGED <<balance, ledger, transfers, started, req, wallet, walletWrite, earlier, initialBalance, calc, modal>>

\* The body of POST /transferrecipient for a bank account: which of the
\* fields taken from destinationDetails are defined.
NubanRecipient(d) ==
    [type |-> "nuban", name |-> d.account_name, account_number |-> d.account_number,
     bank_code |-> d.bank_name]

\* POST /transferrecipient with type nuban answers (no try around fetch or json).
RecipientBank(p) ==
    /\ pc[p] = "recipient_bank"
    /\ LET sent == NubanRecipient(req[p].body.destinationDetails)
       IN  \/ \E out \in {"network", "parse", "null", "nodata"} :
                Throw(p, ProviderCall("recipient_bank", out, sent, "", ""))
           \/ \E m \in RecipientMessages :
                Return(p, ErrorResponse(400, OrElse(m, "Failed to create bank recipient"), "", 0),
                       ProviderCall("recipient_bank", "reject", sent, "", m))
           \/ Await(p, "transfer", ProviderCall("recipient_bank", "ok", sent, "", ""))
    /\ UNCHANGED <<balance, ledger, transfers, started, req, wallet, walletWrite, earlier, initialBalance, calc, modal>>

\* Variant: the answer of the provider is not inspected.
TransferRejectedNever(out) == FALSE
\* !transferResponse.ok || !transferData.status
TransferRejected(out) == out # "ok"

\* POST /transfer answers; the provider has executed the transfer iff it
\* answers success ("ok").
Transfer(p) ==
    /\ pc[p] = "transfer"
    /\ \E out \in {"network", "parse", "null", "reject", "ok"}, r \in TransferRejections :
       LET call == ProviderCall("transfer", out, AmountInKobo(NetAmount(p)), r.code, r.message)
       IN
         /\ out # "reject" => r = Rejection("", "")
         /\ transfers' = IF out = "ok"
                         THEN Append(transfers, [amount |-> AmountInKobo(NetAmount(p))])
                         ELSE transfers
         /\ CASE out = "network" -> Return(p, TransferNetworkError, call)
              [] out = "parse" -> Return(p, PaymentServiceError, call)
              [] out = "null" -> Throw(p, call)
              [] OTHER ->
                   IF TransferRejected(out)
                   THEN Return(p, ErrorResponse(400, TransferErrorMessage(r), r.code, 0), call)
                   ELSE Await(p, "wallet_update", call)
    /\ UNCHANGED <<balance, ledger, started, req, wallet, walletWrite, earlier, initialBalance, calc, modal>>

\* Variant: the error of the update is not read.
UpdateErrorIgnored(out) == FALSE
\* if (updateError)
UpdateError(out) == out = "fail"

\* The update of user_central_wallets returns; the row is written iff the
\* update succeeded ("ok").
WalletUpdate(p) ==
    /\ pc[p] = "wallet_update"
    /\ \E out \in {"ok", "fail", "throw"} :
         /\ IF out = "ok"
            THEN /\ balance' = NewBalance(wallet[p], Amount(p))
                 /\ walletWrite' = [walletWrite EXCEPT ![p] =
                        [done |-> TRUE, before |-> balance,
                         after |-> NewBalance(wallet[p], Amount(p))]]
            ELSE UNCHANGED <<balance, walletWrite>>
         /\ IF out = "throw" THEN Throw(p, Call("wallet_update", out))
            ELSE IF UpdateError(out) THEN Return(p, WalletUpdateFailed, Call("wallet_update", out))
            ELSE Await(p, "ledger_insert", Call("wallet_update", out))
    /\ UNCHANGED <<ledger, transfers, started, req, wallet, earlier, initialBalance, calc, modal>>

Success(p) ==
    [status |-> 200, success |-> TRUE, error |-> "", code |-> "",
     amount |-> Amount(p), fee |-> Fee(p), netAmount |-> Amount(p) - Fee(p),
     newBalance |-> wallet[p] - Amount(p)]

\* The row inserted into wallet_transactions (its amount and fee columns).
LedgerRow(p) ==
    [type |-> "withdrawal", amount |-> 0 - Amount(p),
     fee |-> Fee(p), net_amount |-> Amount(p) - Fee(p)]

\* The insert into wallet_transactions returns; its error is not read.
LedgerInsert(p) ==
    /\ pc[p] = "ledger_insert"
    /\ \/ /\ ledger' = Append(ledger, LedgerRow(p))
          /\ Return(p, Success(p), Call("ledger_insert", "ok"))
       \/ /\ ledger' = ledger
          /\ Return(p, Success(p), Call("ledger_insert", "fail"))
       \/ /\ ledger' = ledger
          /\ Throw(p, Call("ledger_insert", "throw"))
    /\ UNCHANGED <<balance, transfers, started, req, wallet, walletWrite, earlier, initialBalance, calc, modal>>

Step(p) ==
        \/ Serve(p)
        \/ GetUser(p)
        \/ ParseBody(p)
        \/ WalletSelect(p)
        \/ FetchBanks(p)
        \/ RecipientIntl(p)
        \/ RecipientLocal(p)
        \/ RecipientBank(p)
        \/ Transfer(p)
        \/ WalletUpdate(p)
        \/ LedgerInsert(p)

Next == \E p \in Procs : Step(p)

Spec == Init /\ [][Next]_vars

-----------------------------------------------------------------------------
(* calculateFee on its own: the fee of every amount from 1 up, per method *)

\* Largest amount the fee is computed for.
MaxFeeAmount == 30000

\* No request has arrived: the state the handler variables keep while a pure
\* function of the handler is evaluated.
HandlerIdle ==
    /\ balance \in InitBalances
    /\ ledger = <<>>
    /\ transfers = <<>>
    /\ started = 0
    /\ pc = [p \in Procs |-> "idle"]
    /\ req = [p \in Procs |-> NoRequest]
    /\ wallet = [p \in Procs |-> 0]
    /\ resp = [p \in Procs |-> NoResponse]
    /\ log = [p \in Procs |-> <<>>]
    /\ walletWrite = [p \in Procs |-> NoWrite]
    /\ earlier = [p \in Procs |-> {}]
    /\ initialBalance = balance

handlerVars == <<balance, ledger, transfers, started, pc, req, wallet,
                 resp, log, walletWrite, earlier, initialBalance>>

\* const fee = calculateFee(amount, paymentMethod), with the fee of the
\* amount one lower kept for comparison.
FeeOf(amt, method, previous) ==
    [fn |-> "calculateFee", amount |-> amt, method |-> method,
     fee |-> calculateFee(amt, method), previous |-> previous]

FeeInit ==
    /\ HandlerIdle
    /\ \E m \in PaymentMethods : calc = FeeOf(1, m, calculateFee(1, m))
    /\ modal = NotMounted

\* The fee of the next amount.
FeeNextAmount ==
    /\ calc.amount < MaxFeeAmount
    /\ calc' = FeeOf(calc.amount + 1, calc.method, calc.fee)
    /\ UNCHANGED <<handlerVars, modal>>

FeeNext == FeeNextAmount

FeeSpec == FeeInit /\ [][FeeNext]_vars

-----------------------------------------------------------------------------
(* The phone number forms on their own: every short input, and the examples *)

\* Longest phone number built character by character.
MaxPhoneLen == 5

\* Characters of a phone number as typed.
PhoneChars == {"+", "0", "2", "4", "5", "7", " ", "-"}

\* The phone numbers of the documented cases.
PhoneExamples == {Chars("0712345678"), Chars("+254712345678"),
                  Chars("254712345678"), Chars("712345678")}

\* The two forms the handler derives from destinationDetails.phone_number.
PhoneForms(rawPhone) ==
    [fn |-> "phone", raw |-> rawPhone,
     intl |-> IntlPhone(rawPhone), local |-> LocalPhone(rawPhone)]

\* String(destinationDetails.phone_number || '') of an absent phone number.
PhoneInit ==
    /\ HandlerIdle
    /\ calc = PhoneForms(<<>>)
    /\ modal = NotMounted

\* The forms of the number with one more character.
PhoneNextChar ==
    /\ Len(calc.raw) < MaxPhoneLen
    /\ \E c \in PhoneChars : calc' = PhoneForms(Append(calc.raw, c))
    /\ UNCHANGED <<handlerVars, modal>>

\* The forms of one of the documented phone numbers.
PhoneExample ==
    /\ calc.raw = <<>>
    /\ \E rawPhone \in PhoneExamples : calc' = PhoneForms(rawPhone)
    /\ UNCHANGED <<handlerVars, modal>>

PhoneNext == PhoneNextChar \/ PhoneExample

PhoneSpec == PhoneInit /\ [][PhoneNext]_vars

-----------------------------------------------------------------------------
(* The channel lookup on its own: one mobile-money invocation that awaits   *)
(* the channel list, answered with every short list of channels             *)

\* Longest channel list answered.
MaxChannels == 2

\* Channels that match by their code only, by their name only, by their slug
\* only, in another letter case, with fields missing, and one that resembles
\* M-PESA without matching.
MpesaByCode == [code |-> "mpesa", name |-> "Safaricom", slug |-> "safaricom"]
MpesaByName == [code |-> "SAF", name |-> "Safaricom MPesa", slug |-> "safaricom"]
AirtelBySlug == [code |-> "ATL", name |-> "Bharti", slug |-> "AIRTEL-ke"]
PesaLink == [code |-> "PESA", name |-> "Pesa Link", slug |-> "pesa-link"]
NamelessChannel == [code |-> "", name |-> "", slug |-> ""]

Channels == {MpesaChannel, AirtelChannel, MtnChannel, MpesaByCode, MpesaByName,
             AirtelBySlug, PesaLink, NamelessChannel}

\* The list that GET /bank is about to answer.
ChannelList(list) == [fn |-> "banks", list |-> list]

\* Invocation r1 of a mobile-money withdrawal of 150 from a balance of 200 has
\* passed every check and awaits GET /bank; r2 has received no request.
ProviderInit ==
    /\ balance = 200
    /\ ledger = <<>>
    /\ transfers = <<>>
    /\ started = 1
    /\ \E m \in {"mpesa", "airtel"} :
          req = [p \in Procs |-> IF p = "r1"
                                 THEN Request("POST", Body(Num(150), m, PhoneDetails))
                                 ELSE NoRequest]
    /\ pc = [p \in Procs |-> IF p = "r1" THEN "banks" ELSE "idle"]
    /\ wallet = [p \in Procs |-> IF p = "r1" THEN 200 ELSE 0]
    /\ resp = [p \in Procs |-> NoResponse]
    /\ log = [p \in Procs |-> IF p = "r1"
                               THEN <<Call("getUser", "ok"), Call("json", "ok"),
                                      Call("wallet_select", "ok")>>
                               ELSE <<>>]
    /\ walletWrite = [p \in Procs |-> NoWrite]
    /\ earlier = [p \in Procs |-> {}]
    /\ initialBalance = balance
    /\ calc = ChannelList(<<>>)
    /\ modal = NotMounted

\* The provider's list has one more channel.
ProviderListGrows ==
    /\ pc["r1"] = "banks"
    /\ Len(calc.list) < MaxChannels
    /\ \E c \in Channels : calc' = ChannelList(Append(calc.list, c))
    /\ UNCHANGED <<handlerVars, modal>>

\* GET /bank answers the list.
ProviderLookup ==
    /\ pc["r1"] = "banks"
    /\ BanksAnswer("r1", calc.list)
    /\ UNCHANGED <<balance, ledger, transfers, started, req, wallet, walletWrite, earlier, initialBalance, calc, modal>>

ProviderNext == ProviderListGrows \/ ProviderLookup

ProviderSpec == ProviderInit /\ [][ProviderNext]_vars

-----------------------------------------------------------------------------
(* MakeContributionModal: the state of the component, its top-up effect and *)
(* handleSubmit, which runs from one await to the next as one step          *)

\* The texts of the amount input (type="number"): empty, zero, negative,
\* within and above the wallet balance.
AmountTexts ==
    {<<>>, <<"0">>, <<"-", "5">>, <<"5", "0">>, <<"1", "5", "0">>}

NoteTexts == {"", "monthly"}

ChamaIds == {"", "c1"}

\* The options of the payment method select.
ModalMethods == {"wallet", "paystack", "mobile_money", "bank_transfer", "cash"}

\* data.balance || 0 of the user's row of user_wallets: a wallet balance
\* is not negative.
WalletBalances == {0, 100}

DecimalDigits == {"0", "1", "2", "3", "4", "5", "6", "7", "8", "9"}

DigitValue(c) ==
    CASE c = "0" -> 0 [] c = "1" -> 1 [] c = "2" -> 2 [] c = "3" -> 3
      [] c = "4" -> 4 [] c = "5" -> 5 [] c = "6" -> 6 [] c = "7" -> 7
      [] c = "8" -> 8 [] c = "9" -> 9

NaN == [nan |-> TRUE, value |-> 0]

Number(n) == [nan |-> FALSE, value |-> n]

RECURSIVE DigitPrefix(_)
DigitPrefix(cs) ==
    IF cs = <<>> \/ Head(cs) \notin DecimalDigits THEN <<>>
    ELSE <<Head(cs)>> \o DigitPrefix(Tail(cs))

RECURSIVE DecimalValue(_)
DecimalValue(ds) ==
    IF ds = <<>> THEN 0
    ELSE 10 * DecimalValue(SubSeq(ds, 1, Len(ds) - 1)) + DigitValue(ds[Len(ds)])

\* parseFloat(amount) of a text of whole numbers: the sign and the leading
\* digits; NaN when there is no digit.
parseFloat(cs) ==
    LET negative == cs # <<>> /\ Head(cs) = "-"
        digits == DigitPrefix(IF negative THEN Tail(cs) ELSE cs)
    IN  IF digits = <<>> THEN NaN
        ELSE Number(IF negative THEN 0 - DecimalValue(digits)
                    ELSE DecimalValue(digits))

\* x || 0 : NaN and 0 are falsy.
OrZero(x) == IF x.nan THEN 0 ELSE x.value

\* x > y and x <= 0 of JavaScript: every comparison with NaN is false.
GreaterThan(x, y) == ~x.nan /\ x.value > y

AtMostZero(x) == ~x.nan /\ x.value <= 0

\* const needsTopUp = contributionAmount > 0 && contributionAmount > walletBalance
NeedsTopUp(amountText, walletBalance) ==
    LET contributionAmount == OrZero(parseFloat(amountText))
    IN  contributionAmount > 0 /\ contributionAmount > walletBalance

SwitchedMethodNever(needsTopUp, method) == method

\* if (needsTopUp && paymentMethod === 'wallet') setPaymentMethod('paystack')
SwitchedMethod(needsTopUp, method) ==
    IF needsTopUp /\ method = "wallet" THEN "paystack" ELSE method

InsufficientWalletNever(method, contributionAmount, walletBalance) == FALSE

\* if (paymentMethod === 'wallet' && contributionAmount > walletBalance)
InsufficientWallet(method, contributionAmount, walletBalance) ==
    method = "wallet" /\ GreaterThan(contributionAmount, walletBalance)

\* No handleSubmit call has been made.
NoCall ==
    [pc |-> "idle", path |-> "none", method |-> "", amount |-> NaN,
     balance |-> 0, setTrue |-> FALSE, payments |-> 0, invokes |-> 0,
     reset |-> FALSE, closed |-> FALSE]

\* The useState initial values; the effects run after the first render.
Mounted ==
    [mounted |-> TRUE, selectedChamaId |-> "", amount |-> <<>>, notes |-> "",
     paymentMethod |-> "wallet", isProcessing |-> FALSE, walletBalance |-> 0,
     showTopUpPrompt |-> FALSE, effectPending |-> TRUE,
     autoSwitched |-> FALSE, call |-> NoCall]

ModalInit ==
    /\ HandlerIdle
    /\ calc = NoCalc
    /\ modal = Mounted

\* A dependency of the top-up effect differs between two renders.
DepsChanged(m, n) ==
    \/ n.amount # m.amount
    \/ n.walletBalance # m.walletBalance
    \/ n.paymentMethod # m.paymentMethod

\* The render after state setters have turned m into n: the top-up effect
\* is scheduled when one of its dependencies has changed.
Rendered(m, n) ==
    [n EXCEPT !.effectPending = m.effectPending \/ DepsChanged(m, n),
              !.autoSwitched = m.autoSwitched /\ ~DepsChanged(m, n)]

\* The top-up effect.
TopUpEffect ==
    /\ modal.effectPending
    /\ LET needsTopUp == NeedsTopUp(modal.amount, modal.walletBalance)
           method == SwitchedMethod(needsTopUp, modal.paymentMethod)
       IN  modal' = [modal EXCEPT
                !.showTopUpPrompt = needsTopUp /\ modal.paymentMethod = "wallet",
                !.paymentMethod = method,
                !.effectPending = method # modal.paymentMethod,
                !.autoSwitched = IF method # modal.paymentMethod THEN TRUE
                                 ELSE modal.autoSwitched]
    /\ UNCHANGED <<handlerVars, calc>>

\* fetchBalance: setWalletBalance(data.balance || 0)
FetchBalance ==
    /\ \E b \in WalletBalances :
          modal' = Rendered(modal, [modal EXCEPT !.walletBalance = b])
    /\ UNCHANGED <<handlerVars, calc>>

\* onChange of the amount input, which is disabled while processing.
SetAmount ==
    /\ ~modal.isProcessing
    /\ \E a \in AmountTexts :
          modal' = Rendered(modal, [modal EXCEPT !.amount = a])
    /\ UNCHANGED <<handlerVars, calc>>

\* The "Use This" button of the selected chama, which is never disabled:
\* setAmount(selectedChama.contribution_amount?.toString() || '')
UseExpectedAmount ==
    /\ modal.selectedChamaId # ""
    /\ \E a \in AmountTexts \ {<<"-", "5">>} :
          modal' = Rendered(modal, [modal EXCEPT !.amount = a])
    /\ UNCHANGED <<handlerVars, calc>>

\* onChange of the notes input, which is disabled while processing.
SetNotes ==
    /\ ~modal.isProcessing
    /\ \E n \in NoteTexts :
          modal' = Rendered(modal, [modal EXCEPT !.notes = n])
    /\ UNCHANGED <<handlerVars, calc>>

\* onValueChange of the chama select.
SetSelectedChamaId ==
    /\ \E c \in ChamaIds \ {""} :
          modal' = Rendered(modal, [modal EXCEPT !.selectedChamaId = c])
    /\ UNCHANGED <<handlerVars, calc>>

\* onValueChange of the payment method select; the wallet option is
\* disabled when walletBalance <= 0.
SetPaymentMethod ==
    /\ \E m \in ModalMethods :
          /\ m = "wallet" => modal.walletBalance > 0
          /\ modal' = Rendered(modal, [modal EXCEPT !.paymentMethod = m])
    /\ UNCHANGED <<handlerVars, calc>>

\* A handleSubmit call is between its first await and its return.
InProgress(m) == m.call.pc # "idle"

\* The call returns by the path given.
Returned(c, path) == [c EXCEPT !.pc = "idle", !.path = path]

FinallySkipped(m) == m

\* finally { setIsProcessing(false) }
Finally(m) == [m EXCEPT !.isProcessing = FALSE]

\* handleSubmit up to its first await or its return, with the values of the
\* render it was created in.
HandleSubmit ==
    /\ ~InProgress(modal)
    /\ LET contributionAmount == parseFloat(modal.amount)
           call == [NoCall EXCEPT !.method = modal.paymentMethod,
                                  !.amount = contributionAmount,
                                  !.balance = modal.walletBalance]
           processing == [call EXCEPT !.setTrue = TRUE]
       IN  modal' =
             IF modal.selectedChamaId = "" \/ modal.amount = <<>>
             THEN [modal EXCEPT !.call = Returned(call, "missing")]
             ELSE IF AtMostZero(contributionAmount)
             THEN [modal EXCEPT !.call = Returned(call, "invalid")]
             ELSE IF InsufficientWallet(modal.paymentMethod,
                                        contributionAmount, modal.walletBalance)
             THEN Finally([modal EXCEPT
                      !.isProcessing = FALSE,
                      !.call = Returned(processing, "insufficient")])
             ELSE IF modal.paymentMethod = "paystack"
             THEN [modal EXCEPT
                      !.isProcessing = TRUE,
                      !.call = [processing EXCEPT !.pc = "initializePayment",
                                                  !.payments = @ + 1]]
             ELSE [modal EXCEPT
                      !.isProcessing = TRUE,
                      !.call = [processing EXCEPT !.pc = "invoke",
                                                  !.invokes = @ + 1]]
    /\ UNCHANGED <<handlerVars, calc>>

\* await initializePayment.mutateAsync(...) returns or throws.
PaymentReturns ==
    /\ modal.call.pc = "initializePayment"
    /\ \E out \in {"ok", "throw"} :
          modal' =
            IF out = "ok"
            THEN Finally([modal EXCEPT
                     !.isProcessing = FALSE,
                     !.call = Returned(@, "paystack")])
            ELSE Finally([modal EXCEPT !.call = Returned(@, "payment_failed")])
    /\ UNCHANGED <<handlerVars, calc>>

\* await supabase.functions.invoke('make-contribution', ...) returns data,
\* returns an error (thrown by the next line) or throws.
InvokeReturns ==
    /\ modal.call.pc = "invoke"
    /\ \E out \in {"ok", "error", "throw"} :
          modal' =
            IF out = "ok"
            THEN [modal EXCEPT !.call.pc = "refresh"]
            ELSE Finally([modal EXCEPT !.call = Returned(@, "failed")])
    /\ UNCHANGED <<handlerVars, calc>>

\* The awaits of invalidateQueries and of the delay, which touch no state
\* of the component, then the form reset, onSuccess and onClose; or one of
\* them throws.
Refreshed ==
    /\ modal.call.pc = "refresh"
    /\ \E out \in {"ok", "throw"} :
          modal' =
            IF out = "ok"
            THEN Rendered(modal, Finally([modal EXCEPT
                     !.selectedChamaId = "",
                     !.amount = <<>>,
                     !.notes = "",
                     !.paymentMethod = "wallet",
                     !.call = [Returned(@, "success") EXCEPT
                                  !.reset = TRUE, !.closed = TRUE]]))
            ELSE Finally([modal EXCEPT !.call = Returned(@, "failed")])
    /\ UNCHANGED <<handlerVars, calc>>

ModalNext ==
    \/ TopUpEffect
    \/ FetchBalance
    \/ SetAmount
    \/ UseExpectedAmount
    \/ SetNotes
    \/ SetSelectedChamaId
    \/ SetPaymentMethod
    \/ HandleSubmit
    \/ PaymentReturns
    \/ InvokeReturns
    \/ Refreshed

ModalSpec == ModalInit /\ [][ModalNext]_vars

-----------------------------------------------------------------------------
(* Observations on an invocation *)

Done(p) == pc[p] = "done"

\* The call op of the invocation has returned with outcome out.
Has(p, op, out) ==
    \E i \in 1..Len(log[p]) : log[p][i].op = op /\ log[p][i].out = out

LastCall(p) == log[p][Len(log[p])]

ProviderOps == {"banks", "recipient_intl", "recipient_local", "recipient_bank", "transfer"}

\* No call to the payment provider has been issued by the invocation.
NoProviderCall(p) ==
    /\ pc[p] \notin ProviderOps
    /\ \A i \in 1..Len(log[p]) : log[p][i].op \notin ProviderOps

\* The invocation has inserted a ledger row.
WroteLedger(p) == Has(p, "ledger_insert", "ok")

-----------------------------------------------------------------------------
(* Claims *)

\* C1: for every invocation that returns the success response, the wallet
\* balance stored after its update equals the balance stored before its update
\* minus the full requested amount.
C1_DebitIsAmount ==
    \A p \in Procs :
        resp[p].success =>
            /\ walletWrite[p].done
            /\ walletWrite[p].after = walletWrite[p].before - resp[p].amount

\* C2: the only balance guard of a transfer is the invocation's own earlier
\* read of the balance: every invocation whose transfer the provider executed
\* requested no more than the balance it read itself - and nothing stops two
\* invocations from reading the same balance (witness C2_OverWithdrawal).
C2_TransferGuardedByOwnRead ==
    \A p \in Procs :
        Has(p, "transfer", "ok") =>
            /\ Has(p, "wallet_select", "ok")
            /\ Amount(p) <= wallet[p]

\* C2 witness: two first invocations read the same balance B, each passed the
\* check with a1 <= B and a2 <= B, a1 + a2 > B, and both transfers were executed.
C2_OverWithdrawal ==
    \E p, q \in Procs :
        /\ p # q
        /\ started = 2
        /\ Has(p, "transfer", "ok") /\ Has(q, "transfer", "ok")
        /\ wallet[p] = wallet[q]
        /\ Amount(p) <= wallet[p] /\ Amount(q) <= wallet[q]
        /\ Amount(p) + Amount(q) > wallet[p]
        /\ Len(transfers) = 2

\* The invocation ended with one of the failures before or at the transfer.
C3_FailedBeforeDeduction(p) ==
    /\ Done(p)
    /\ ~resp[p].success
    /\ \/ resp[p].status \in {400, 401, 404}
       \/ resp[p] \in {PaymentServiceError, TransferNetworkError, NotConfigured}
       \/ /\ resp[p] = InternalServerError
          /\ LastCall(p).op \in ProviderOps \cup {"getUser", "json", "wallet_select"}

\* C3: the wallet and the ledger are written only after the provider accepted
\* the transfer; an invocation that ends with a validation, fee, provider-list,
\* recipient or transfer failure has written neither.
C3_WritesOnlyAfterAcceptedTransfer ==
    \A p \in Procs :
        /\ (walletWrite[p].done \/ WroteLedger(p)) => Has(p, "transfer", "ok")
        /\ C3_FailedBeforeDeduction(p) => (~walletWrite[p].done /\ ~WroteLedger(p))

\* C3 witness: the provider rejected the transfer of an invocation.
C3_TransferRejectedState ==
    \E p \in Procs :
        /\ Done(p) /\ Has(p, "transfer", "reject") /\ resp[p].status = 400
        /\ ~walletWrite[p].done /\ ledger = <<>>

\* The request passed every check before the fee computation.
C4_ReachedFee(p) ==
    /\ Has(p, "wallet_select", "ok")
    /\ resp[p] \notin {InsufficientBalance, NotConfigured}

\* C4: a success response has netAmount = amount - fee > 0; a request whose
\* amount minus fee is <= 0 never reaches the provider, and once it reaches
\* the fee computation it is answered 400 amount_too_low.
C4_NetAmountPositive ==
    \A p \in Procs :
        /\ resp[p].success =>
              /\ resp[p].netAmount = resp[p].amount - resp[p].fee
              /\ resp[p].fee = calculateFee(resp[p].amount, Method(p))
              /\ resp[p].netAmount > 0
        /\ (req[p].body.json /\ ~InvalidAmount(req[p].body.amount)
              /\ Amount(p) - calculateFee(Amount(p), Method(p)) <= 0) =>
              /\ NoProviderCall(p)
              /\ ~resp[p].success
              /\ C4_ReachedFee(p) =>
                    /\ Done(p) /\ resp[p].status = 400 /\ resp[p].code = "amount_too_low"
                    /\ resp[p].fee = calculateFee(Amount(p), Method(p))

\* C4 witness: amount 25 by bank (fee 25) was answered amount_too_low.
C4_AmountTooLowState ==
    \E p \in Procs :
        /\ Done(p) /\ resp[p].code = "amount_too_low"
        /\ Amount(p) = 25 /\ Method(p) = "bank" /\ NoProviderCall(p)

\* C5: a request whose amount is greater than the balance the handler read is
\* answered 400 insufficient balance, and no provider call is made.
C5_InsufficientBalanceRejected ==
    \A p \in Procs :
        (Has(p, "wallet_select", "ok") /\ Amount(p) > wallet[p]) =>
            /\ Done(p)
            /\ resp[p] = InsufficientBalance /\ resp[p].status = 400
            /\ NoProviderCall(p)

\* C5 witness: balance 100, amount 150.
C5_Balance100Amount150 ==
    \E p \in Procs :
        /\ Done(p) /\ wallet[p] = 100 /\ Amount(p) = 150
        /\ resp[p] = InsufficientBalance /\ NoProviderCall(p)

\* C6: if the wallet update fails after the provider accepted the transfer,
\* the invocation answers 500, inserts no ledger row and leaves the wallet
\* undebited although its transfer was executed.
C6_UpdateFailureLeavesWalletUndebited ==
    \A p \in Procs :
        Has(p, "wallet_update", "fail") =>
            /\ Done(p) /\ resp[p].status = 500 /\ ~resp[p].success
            /\ ~walletWrite[p].done
            /\ ~WroteLedger(p) /\ ~Has(p, "ledger_insert", "fail")
            /\ Has(p, "transfer", "ok") /\ Len(transfers) >= 1

\* C6 witness: one invocation only; its transfer is executed, the wallet still
\* holds its initial balance and the ledger is empty.
C6_TransferExecutedWalletUnchanged ==
    \E p \in Procs :
        /\ started = 1
        /\ Done(p) /\ resp[p] = WalletUpdateFailed
        /\ Len(transfers) = 1 /\ transfers[1].amount = AmountInKobo(NetAmount(p))
        /\ balance = wallet[p] /\ balance \in InitBalances
        /\ ledger = <<>>

\* C7: a failed ledger insert after a successful transfer and wallet update is
\* answered 500; the success response is returned only when the row was written.
C7_LedgerFailureAnswered500 ==
    \A p \in Procs :
        /\ Has(p, "ledger_insert", "fail") => resp[p].status = 500
        /\ resp[p].success => WroteLedger(p)

\* C8: for each provider call, a network failure or an unparsable body ends
\* the invocation with status 500, a parsed non-success answer with status 400.
C8_ProviderFailureStatus ==
    \A p \in Procs :
        (Done(p) /\ Len(log[p]) > 0 /\ LastCall(p).op \in ProviderOps) =>
            /\ LastCall(p).out \in {"network", "parse"} => resp[p].status = 500
            /\ LastCall(p).out = "reject" => resp[p].status = 400

\* The checks on the body in the order of the claim, each with its response.
C9_Checks(b) ==
    << [violated |-> ~(b.amount.t = "number" /\ b.amount.v > 0),
        r |-> InvalidAmountResponse],
       [violated |-> ~b.destinationDetails.present,
        r |-> DetailsRequired],
       [violated |-> b.paymentMethod = "bank"
                       /\ ~(b.destinationDetails.account_number
                             /\ b.destinationDetails.bank_name
                             /\ b.destinationDetails.account_name),
        r |-> BankIncomplete],
       [violated |-> b.paymentMethod # "bank" /\ ~b.destinationDetails.phone_number,
        r |-> PhoneRequired] >>

C9_Violated(b) == {i \in 1..4 : C9_Checks(b)[i].violated}

C9_First(b) == CHOOSE i \in C9_Violated(b) : \A j \in C9_Violated(b) : i <= j

C9_ValidationResponses ==
    {Unauthorized, InvalidAmountResponse, DetailsRequired, BankIncomplete,
     PhoneRequired, WalletNotFound, InsufficientBalance}

\* C9: validation is fail-fast in the order identity, amount, details, bank
\* fields or phone, wallet, balance: the response is that of the first check
\* that fails and no later call is made.
C9_FailFastOrder ==
    \A p \in Procs :
        /\ Has(p, "getUser", "fail") =>
              Done(p) /\ resp[p] = Unauthorized /\ resp[p].status = 401 /\ Len(log[p]) = 1
        /\ Has(p, "json", "ok") =>
              IF C9_Violated(req[p].body) # {}
              THEN /\ Done(p)
                   /\ resp[p] = C9_Checks(req[p].body)[C9_First(req[p].body)].r
                   /\ resp[p].status = 400
                   /\ log[p] = <<Call("getUser", "ok"), Call("json", "ok")>>
              ELSE /\ Has(p, "wallet_select", "fail") =>
                        Done(p) /\ resp[p] = WalletNotFound /\ resp[p].status = 404
                                /\ Len(log[p]) = 3
                   /\ (Has(p, "wallet_select", "ok") /\ wallet[p] < Amount(p)) =>
                        Done(p) /\ resp[p] = InsufficientBalance /\ resp[p].status = 400
                                /\ Len(log[p]) = 3
                   /\ (Has(p, "wallet_select", "ok") /\ wallet[p] >= Amount(p)) =>
                        resp[p] \notin C9_ValidationResponses

\* C9 witness: a body with an invalid amount and no destinationDetails is
\* answered invalid_amount.
C9_SeveralViolations ==
    \E p \in Procs :
        /\ Done(p) /\ req[p].body.json
        /\ Cardinality(C9_Violated(req[p].body)) >= 2
        /\ resp[p].code = "invalid_amount"

\* C10: every invocation ends with exactly one response, with status 200,
\* 400, 401, 404 or 500, whatever the calls return or throw; as long as it has
\* not answered, every outcome of the awaited call leads on.
C10_AlwaysOneResponse ==
    \A p \in Procs :
        /\ Done(p) <=> resp[p] # NoResponse
        /\ Done(p) => resp[p].status \in {200, 400, 401, 404, 500}
        /\ (Len(log[p]) > 0 /\ LastCall(p).out \in {"throw", "null", "nodata"}) =>
              Done(p) /\ resp[p].status = 500
        /\ pc[p] \notin {"idle", "done"} => ENABLED Step(p)

\* C10 witness: an exception thrown by an awaited call was answered 500.
C10_ExceptionAnswered ==
    \E p \in Procs :
        /\ Done(p) /\ Len(log[p]) > 0
        /\ LastCall(p).out = "throw" /\ resp[p] = InternalServerError

C11_RecipientOps == {"recipient_intl", "recipient_local"}

\* The messages of a failed attempt that contain 'account number is invalid'
\* in any letter case.
C11_InvalidMessages ==
    {m \in RecipientMessages \cup {"fetch failed", "Payment service error"} :
        Includes(ToLowerCase(Chars(m)), Chars("account number is invalid"))}

\* The call failed with a message that contains 'account number is invalid'.
C11_FailedAsInvalid(c) ==
    /\ c.out \in {"network", "parse", "reject"}
    /\ c.message \in C11_InvalidMessages

\* The two forms of the phone number 0712345678.
C11_IntlForm == Chars("254712345678")
C11_LocalForm == Chars("0712345678")

\* The call issued after the i-th returned call of the invocation: the op of
\* the next returned call, or the call the invocation is waiting for.
C11_IssuedNext(p, i) == IF i < Len(log[p]) THEN log[p][i + 1].op ELSE pc[p]

\* C11: the first recipient creation of a mobile-money withdrawal carries the
\* international phone form; a second one is issued iff the first failed with
\* a message that contains 'account number is invalid' (in any letter case),
\* it carries the local form, and there is never a third.
C11_RetryOnceWithLocalForm ==
    \A p \in Procs :
        \A i \in 1..Len(log[p]) :
          (log[p][i].op \in C11_RecipientOps \/ i = Len(log[p])) =>
            /\ log[p][i].op = "recipient_intl" =>
                  \* the first attempt: it follows the channel lookup
                  /\ log[p][i - 1].op = "banks"
                  /\ Method(p) \in {"mpesa", "airtel"}
                  /\ log[p][i].sent = C11_IntlForm
                  /\ C11_IssuedNext(p, i) = "recipient_local" <=> C11_FailedAsInvalid(log[p][i])
                  /\ C11_IssuedNext(p, i) # "recipient_intl"
            /\ log[p][i].op = "recipient_local" =>
                  \* the second attempt: it follows the first, and none follows it
                  /\ log[p][i - 1].op = "recipient_intl"
                  /\ log[p][i].sent = C11_LocalForm
                  /\ C11_IssuedNext(p, i) \notin C11_RecipientOps
            /\ (log[p][i].op \notin C11_RecipientOps /\ C11_IssuedNext(p, i) \in C11_RecipientOps) =>
                  /\ log[p][i].op = "banks"
                  /\ C11_IssuedNext(p, i) = "recipient_intl"

\* C11 witness: the provider answered 'Account number is invalid' to both
\* forms; the invocation ended with 400 after the second attempt.
C11_BothFormsRejected ==
    \E p \in Procs :
        /\ Done(p) /\ resp[p].status = 400 /\ Len(log[p]) > 0
        /\ LastCall(p).op = "recipient_local"
        /\ LastCall(p).message = "Account number is invalid"
        /\ LastCall(p).sent = C11_LocalForm
        /\ log[p][Len(log[p]) - 1].op = "recipient_intl"
        /\ log[p][Len(log[p]) - 1].sent = C11_IntlForm

\* C12: the stored wallet balance is never negative, whatever the
\* interleaving of the invocations.
C12_BalanceNonNegative == balance >= 0

\* C12 witness: two overlapping invocations read the same balance and both
\* wrote the wallet.
C12_OverlappingWrites ==
    \E p, q \in Procs :
        /\ p # q
        /\ walletWrite[p].done /\ walletWrite[q].done
        /\ wallet[p] = wallet[q]
        /\ Amount(p) + Amount(q) > wallet[p]
        /\ balance = wallet[q] - Amount(q)

\* Invocation q replays the request of p: it arrived after p had answered
\* success with p's write as the stored balance, p's slot has served no
\* request since, q carries the same body and its wallet select has returned.
C13_Replays(p, q) ==
    /\ p # q
    /\ p \in earlier[q]
    /\ req[q].body = req[p].body
    /\ Has(q, "wallet_select", "ok")

\* C13: the replay of a successful withdrawal of a from balance B reads and is
\* validated against B - a: with B - a < a it is answered insufficient balance
\* and makes no provider call; otherwise it is not rejected for its balance,
\* and the transfer the provider executes for it is a second transfer.
C13_ReplayRevalidated ==
    \A p, q \in Procs :
        C13_Replays(p, q) =>
            /\ wallet[q] = wallet[p] - Amount(p)
            /\ wallet[q] < Amount(q) =>
                  Done(q) /\ resp[q] = InsufficientBalance /\ NoProviderCall(q)
            /\ wallet[q] >= Amount(q) =>
                  /\ resp[q] # InsufficientBalance
                  /\ Has(q, "transfer", "ok") =>
                        /\ Len(transfers) >= 2
                        /\ transfers[Len(transfers)].amount = AmountInKobo(NetAmount(q))

\* C13 witness: 150 was withdrawn from 200; the replay read 50 and was
\* answered insufficient balance.
C13_ReplayRejected ==
    \E p, q \in Procs :
        /\ C13_Replays(p, q)
        /\ wallet[p] = 200 /\ Amount(p) = 150 /\ wallet[q] = 50
        /\ resp[q] = InsufficientBalance /\ Len(transfers) = 1

\* The replay of a withdrawal of 25 from 100 is executed as a second transfer.
C13_ReplayExecuted ==
    \E p, q \in Procs :
        /\ C13_Replays(p, q)
        /\ wallet[p] = 100 /\ Amount(p) = 25 /\ wallet[q] = 75
        /\ resp[q].success /\ Len(transfers) = 2

\* The tiers of the fee schedule: the largest amount of each tier and its fee.
C14_Tiers(method) ==
    CASE method = "mpesa" ->
            <<<<100, 0>>, <<2500, 15>>, <<3500, 25>>, <<5000, 30>>, <<7500, 45>>, <<10000, 50>>>>
      [] method = "airtel" -> <<<<100, 0>>, <<2500, 15>>, <<5000, 30>>>>
      [] OTHER -> <<>>

\* The fee schedule: the fee of the first tier that holds the amount; above
\* the tiers of a mobile-money method max(50, floor(amount / 200)); for bank
\* max(25, floor(amount / 1000)); for any other method 0.
C14_Reference(amt, method) ==
    LET tiers == C14_Tiers(method)
        holds == {i \in 1..Len(tiers) : amt <= tiers[i][1]}
    IN  IF method = "bank" THEN Max(25, amt \div 1000)
        ELSE IF method \notin {"mpesa", "airtel"} THEN 0
        ELSE IF holds # {} THEN tiers[CHOOSE i \in holds : \A j \in holds : i <= j][2]
        ELSE Max(50, amt \div 200)

\* C14: calculateFee equals the fee schedule for every positive integer amount
\* and every method.
C14_FeeMatchesSchedule ==
    calc.fn = "calculateFee" =>
        /\ calc.amount >= 1
        /\ calc.fee = C14_Reference(calc.amount, calc.method)

\* C14 witness: the percentage fee above the tiers, 51 for 10200 by mpesa.
C14_PercentageFee ==
    /\ calc.fn = "calculateFee"
    /\ calc.method = "mpesa" /\ calc.amount = 10200 /\ calc.fee = 51

\* C15: calculateFee is never negative, and never lower than the fee of the
\* amount one lower: it is non-decreasing in the amount, across the tier
\* boundaries too.
C15_FeeMonotone ==
    calc.fn = "calculateFee" =>
        /\ calc.fee >= 0
        /\ calc.previous <= calc.fee

\* C15 witness: the step over a tier boundary, from 15 at 2500 to 25 at 2501.
C15_TierBoundary ==
    /\ calc.fn = "calculateFee"
    /\ calc.method = "mpesa" /\ calc.amount = 2501
    /\ calc.previous = 15 /\ calc.fee = 25

\* The messages of a rejected transfer that contain 'balance is not enough'
\* in any letter case.
C16_BalanceMessages ==
    {r.message : r \in {x \in TransferRejections :
        Includes(ToLowerCase(Chars(x.message)), Chars("balance is not enough"))}}

C16_ServiceUnavailable ==
    "Service temporarily unavailable. Please try again later or contact support."

\* C16: a transfer rejected with code insufficient_balance or with a message
\* that contains 'balance is not enough' is answered with the generic
\* service-unavailable notice and never with the provider's message; any other
\* rejection is answered with the provider's message, or 'Transfer failed'
\* when it has none.
C16_ProviderBalanceHidden ==
    \A p \in Procs :
        (Len(log[p]) > 0 /\ LastCall(p).op = "transfer" /\ LastCall(p).out = "reject") =>
            /\ Done(p) /\ resp[p].status = 400
            /\ IF \/ LastCall(p).code = "insufficient_balance"
                  \/ LastCall(p).message \in C16_BalanceMessages
               THEN /\ resp[p].error = C16_ServiceUnavailable
                    /\ resp[p].error # LastCall(p).message
               ELSE IF LastCall(p).message = ""
               THEN resp[p].error = "Transfer failed"
               ELSE resp[p].error = LastCall(p).message

\* C16 witness: a rejection without code whose message says the provider's
\* balance is not enough was answered with the generic notice.
C16_BalanceMessageHidden ==
    \E p \in Procs :
        /\ Done(p) /\ Len(log[p]) > 0
        /\ LastCall(p).op = "transfer" /\ LastCall(p).out = "reject"
        /\ LastCall(p).code = ""
        /\ LastCall(p).message = "Your balance is not enough to fulfil this request"
        /\ resp[p].error = C16_ServiceUnavailable

\* C17: a nuban recipient creation is issued only for a request whose
\* paymentMethod is bank, and it carries the account number, bank code and
\* account name that passed the validation.
C17_NubanOnlyForBank ==
    \A p \in Procs :
        /\ pc[p] = "recipient_bank" =>
              /\ Method(p) = "bank"
              /\ ~BankDetailsIncomplete(req[p].body.destinationDetails)
        /\ \A i \in 1..Len(log[p]) :
              log[p][i].op = "recipient_bank" =>
                  /\ Method(p) = "bank"
                  /\ log[p][i].sent.type = "nuban"
                  /\ log[p][i].sent.account_number
                  /\ log[p][i].sent.bank_code
                  /\ log[p][i].sent.name

\* A nuban recipient was created for a request whose paymentMethod is card and
\* that carries a phone number only; the transfer to it was executed.
C17_NubanForCard ==
    \E p \in Procs :
        /\ Method(p) = "card"
        /\ \E i \in 1..Len(log[p]) :
              /\ log[p][i].op = "recipient_bank" /\ log[p][i].out = "ok"
              /\ ~log[p][i].sent.account_number
        /\ Has(p, "transfer", "ok")

C18_Digits == {"0", "1", "2", "3", "4", "5", "6", "7", "8", "9"}

\* The input is made of digits, with or without a plus sign in front.
C18_DigitsWithOptionalPlus(cs) ==
    \A i \in 1..Len(cs) : cs[i] \in C18_Digits \/ (i = 1 /\ cs[i] = "+")

\* C18: for every input made of digits with an optional leading '+' or '0'
\* the international form starts with 254 and the local form is 0 followed by
\* the international form without its 254; 0712345678, +254712345678,
\* 254712345678 and 712345678 all give 254712345678 and 0712345678; and the
\* international form of an international form is that form.
C18_PhoneForms ==
    calc.fn = "phone" =>
        /\ C18_DigitsWithOptionalPlus(calc.raw) =>
              /\ Len(calc.intl) >= 3
              /\ SubSeq(calc.intl, 1, 3) = <<"2", "5", "4">>
              /\ calc.local = <<"0">> \o SubSeq(calc.intl, 4, Len(calc.intl))
              /\ IntlPhone(calc.intl) = calc.intl
        /\ calc.raw \in PhoneExamples =>
              /\ calc.intl = <<"2", "5", "4", "7", "1", "2", "3", "4", "5", "6", "7", "8">>
              /\ calc.local = <<"0", "7", "1", "2", "3", "4", "5", "6", "7", "8">>

\* C18 witness: +254712345678 gives 254712345678 and 0712345678.
C18_PlusStripped ==
    /\ calc.fn = "phone"
    /\ calc.raw = <<"+", "2", "5", "4", "7", "1", "2", "3", "4", "5", "6", "7", "8">>
    /\ calc.intl = <<"2", "5", "4", "7", "1", "2", "3", "4", "5", "6", "7", "8">>
    /\ calc.local = <<"0", "7", "1", "2", "3", "4", "5", "6", "7", "8">>

\* A short input with a leading 0: 07 gives 2547 and 07.
C18_LeadingZeroReplaced ==
    /\ calc.fn = "phone"
    /\ calc.raw = <<"0", "7">> /\ calc.intl = <<"2", "5", "4", "7">>
    /\ calc.local = <<"0", "7">>

C19_RecipientOps == {"recipient_intl", "recipient_local", "recipient_bank"}

\* The i-th returned call of the invocation was the first call op, and it was
\* issued right after a call of before that returned ok.
C19_OnceAfter(p, i, op, before) ==
    /\ i > 1
    /\ log[p][i - 1].op \in before /\ log[p][i - 1].out = "ok"
    /\ \A j \in 1..(i - 1) : log[p][j].op # op

\* C19: within one invocation the transfer is initiated at most once, the
\* wallet is written at most once and the ledger row is inserted at most once,
\* in that order: the transfer follows a recipient creation that succeeded,
\* the wallet update an accepted transfer, the ledger insert a successful
\* wallet update; and the tables hold no more than one transfer, one write and
\* one row per invocation.
C19_TransferWalletLedgerOrder ==
    /\ Len(transfers) <= started
    /\ Len(ledger) <= started
    /\ \A p \in Procs :
        /\ pc[p] = "transfer" =>
              /\ Len(log[p]) > 0
              /\ LastCall(p).op \in C19_RecipientOps /\ LastCall(p).out = "ok"
              /\ ~\E j \in 1..Len(log[p]) : log[p][j].op = "transfer"
        /\ pc[p] = "wallet_update" =>
              /\ Len(log[p]) > 0
              /\ LastCall(p).op = "transfer" /\ LastCall(p).out = "ok"
              /\ ~walletWrite[p].done
        /\ pc[p] = "ledger_insert" =>
              /\ Len(log[p]) > 0
              /\ LastCall(p).op = "wallet_update" /\ LastCall(p).out = "ok"
              /\ ~\E j \in 1..Len(log[p]) : log[p][j].op = "ledger_insert"
        /\ \A i \in 1..Len(log[p]) :
              /\ log[p][i].op = "transfer" => C19_OnceAfter(p, i, "transfer", C19_RecipientOps)
              /\ log[p][i].op = "wallet_update" =>
                    C19_OnceAfter(p, i, "wallet_update", {"transfer"})
              /\ log[p][i].op = "ledger_insert" =>
                    C19_OnceAfter(p, i, "ledger_insert", {"wallet_update"})
        /\ walletWrite[p].done => Has(p, "wallet_update", "ok")

\* C19 witness: an invocation went through recipient, transfer, wallet update
\* and ledger insert, each once.
C19_FullWithdrawal ==
    \E p \in Procs :
        /\ Done(p) /\ resp[p].success /\ started = 1
        /\ Len(transfers) = 1 /\ Len(ledger) = 1 /\ walletWrite[p].done
        /\ Len(log[p]) >= 4
        /\ log[p][Len(log[p]) - 3].op \in C19_RecipientOps
        /\ log[p][Len(log[p]) - 2].op = "transfer"
        /\ log[p][Len(log[p]) - 1].op = "wallet_update"
        /\ log[p][Len(log[p])].op = "ledger_insert"

\* C20: the amount of every transfer call is the net amount in minor units,
\* 100 * (amount - fee of the schedule), which differs from 100 * amount
\* whenever a fee is due; 50 by mpesa gives 5000 and 3000 by mpesa 297500.
C20_TransferAmountIsNet ==
    /\ AmountInKobo(50 - calculateFee(50, "mpesa")) = 5000
    /\ AmountInKobo(3000 - calculateFee(3000, "mpesa")) = 297500
    /\ \A p \in Procs :
          \A i \in 1..Len(log[p]) :
              log[p][i].op = "transfer" =>
                  LET fee == C14_Reference(Amount(p), Method(p))
                  IN  /\ log[p][i].sent = 100 * (Amount(p) - fee)
                      /\ fee > 0 => log[p][i].sent # 100 * Amount(p)
                      /\ log[p][i].out = "ok" =>
                            \E k \in 1..Len(transfers) : transfers[k].amount = log[p][i].sent

\* C20 witness: 150 by mpesa (fee 15) was sent as 13500.
C20_NetOf150ByMpesa ==
    \E p \in Procs :
        /\ Has(p, "transfer", "ok")
        /\ Amount(p) = 150 /\ Method(p) = "mpesa"
        /\ \E k \in 1..Len(transfers) : transfers[k].amount = 13500
        /\ \E i \in 1..Len(log[p]) : log[p][i].op = "transfer" /\ log[p][i].sent = 13500

\* The text contains the part, whatever the letter case of the text.
C21_Contains(text, part) ==
    \E i \in 0..(Len(Chars(text)) - Len(part)) :
        \A k \in 1..Len(part) :
            LET c == Chars(text)[i + k]
            IN  \/ c = part[k]
                \/ \E n \in 1..26 : Upper[n] = c /\ Lower[n] = part[k]

\* The code is the word, whatever the letter case of the code.
C21_IsCode(code, word) ==
    /\ Len(Chars(code)) = Len(word)
    /\ C21_Contains(code, word)

\* The channel is one of the payment method, as the claim states it.
C21_ChannelOf(bank, method) ==
    CASE method = "mpesa" ->
            \/ C21_IsCode(bank.code, <<"m", "p", "e", "s", "a">>)
            \/ \E text \in {bank.name, bank.slug} :
                  \/ C21_Contains(text, <<"m", "p", "e", "s", "a">>)
                  \/ C21_Contains(text, <<"m", "-", "p", "e", "s", "a">>)
      [] method = "airtel" ->
            \/ C21_IsCode(bank.code, <<"a", "t", "l", "_", "k", "e">>)
            \/ \E text \in {bank.name, bank.slug} :
                  C21_Contains(text, <<"a", "i", "r", "t", "e", "l">>)
      [] OTHER -> FALSE

\* C21: once the channel list is answered to a mobile-money withdrawal, the
\* invocation has ended with 400 provider-not-available, having called neither
\* the recipient creation nor the transfer, if no entry of the list is a
\* channel of the payment method; otherwise it has issued the recipient
\* creation.
C21_NoChannelNotAvailable ==
    (calc.fn = "banks" /\ pc["r1"] # "banks") =>
        IF \E i \in 1..Len(calc.list) : C21_ChannelOf(calc.list[i], Method("r1"))
        THEN pc["r1"] = "recipient_intl" /\ resp["r1"] = NoResponse
        ELSE /\ Done("r1")
             /\ resp["r1"].status = 400 /\ resp["r1"].error = "provider not available"
             /\ LastCall("r1").op = "banks"
             /\ \A i \in 1..Len(log["r1"]) :
                   log["r1"][i].op \notin {"recipient_intl", "recipient_local",
                                           "recipient_bank", "transfer"}
             /\ transfers = <<>>

\* C21 witness: a list with a look-alike and an Airtel channel was answered
\* to an mpesa withdrawal, which ended with provider not available.
C21_MpesaNotListed ==
    /\ calc.fn = "banks" /\ calc.list = <<PesaLink, AirtelChannel>>
    /\ Method("r1") = "mpesa"
    /\ Done("r1") /\ resp["r1"] = ProviderNotAvailable

\* A channel whose code is mpesa in lower case is found for mpesa.
C21_FoundByLowerCaseCode ==
    /\ calc.fn = "banks" /\ calc.list = <<MtnChannel, MpesaByCode>>
    /\ Method("r1") = "mpesa" /\ pc["r1"] = "recipient_intl"

\* The sum of the amounts of the first n ledger rows.
RECURSIVE C22_SumOfAmounts(_)
C22_SumOfAmounts(n) ==
    IF n = 0 THEN 0 ELSE ledger[n].amount + C22_SumOfAmounts(n - 1)

\* C22: whenever no invocation is in progress, the wallet balance is the
\* initial balance plus the sum of the (negative) amounts of the ledger rows.
C22_LedgerConsistent ==
    (\A p \in Procs : pc[p] \in {"idle", "done"}) =>
        balance = initialBalance + C22_SumOfAmounts(Len(ledger))

\* One invocation alone debited the wallet and answered success although its
\* ledger insert failed: the ledger is empty and the balance is lower.
C22_DebitWithoutRow ==
    \E p \in Procs :
        /\ started = 1 /\ Done(p) /\ resp[p].success
        /\ Has(p, "ledger_insert", "fail")
        /\ ledger = <<>> /\ balance = initialBalance - Amount(p)

\* Two overlapping invocations both inserted their row; the wallet was debited
\* once.
C22_TwoRowsOneDebit ==
    \E p, q \in Procs :
        /\ p # q /\ Done(p) /\ Done(q)
        /\ WroteLedger(p) /\ WroteLedger(q) /\ Len(ledger) = 2
        /\ Amount(p) = Amount(q)
        /\ balance = initialBalance - Amount(p)

\* C23: the net-amount check fails exactly for paymentMethod bank with an
\* amount of at most 25; for mpesa, airtel and any unrecognised method the fee
\* is lower than every positive integer amount.
C23_TooLowOnlyBankUpTo25 ==
    calc.fn = "calculateFee" =>
        /\ NetTooLow(calc.amount - calc.fee) <=> (calc.method = "bank" /\ calc.amount <= 25)
        /\ calc.method # "bank" => calc.fee < calc.amount

\* C23 witness: 25 by bank has fee 25 and net amount 0, which the check rejects.
C23_Bank25 ==
    /\ calc.fn = "calculateFee"
    /\ calc.method = "bank" /\ calc.amount = 25 /\ calc.fee = 25
    /\ NetTooLow(calc.amount - calc.fee)

\* 26 by bank has net amount 1 and passes.
C23_Bank26 ==
    /\ calc.fn = "calculateFee"
    /\ calc.method = "bank" /\ calc.amount = 26 /\ ~NetTooLow(calc.amount - calc.fee)

-----------------------------------------------------------------------------
\* The top-up effect of the rendered component has run to its fixed point.
C24_Settled == modal.mounted /\ ~modal.effectPending

\* The condition the insufficient-balance alert is rendered under.
C24_AlertVisible == modal.showTopUpPrompt /\ modal.paymentMethod = "wallet"

\* C24: in every settled state of MakeContributionModal (the top-up effect
\* has run to a fixed point after any change of amount, wallet balance or
\* payment method), paymentMethod 'wallet' implies that the entered amount
\* is not greater than walletBalance, and showTopUpPrompt is false, so the
\* insufficient-balance alert is not visible.
C24_SettledWalletCovers ==
    C24_Settled =>
        /\ modal.paymentMethod = "wallet" =>
              ~GreaterThan(parseFloat(modal.amount), modal.walletBalance)
        /\ ~modal.showTopUpPrompt
        /\ ~C24_AlertVisible

\* C24 witness: settled after the effect has switched an amount above the
\* wallet balance from wallet to paystack.
C24_SettledAfterSwitch ==
    /\ C24_Settled
    /\ modal.autoSwitched
    /\ modal.paymentMethod = "paystack"
    /\ GreaterThan(parseFloat(modal.amount), modal.walletBalance)
    /\ ~modal.showTopUpPrompt

-----------------------------------------------------------------------------
\* C25: handleSubmit never invokes make-contribution when paymentMethod is
\* 'wallet' and the amount exceeds walletBalance, nor when paymentMethod is
\* 'paystack'; on the paystack path it calls initializePayment exactly once
\* and neither resets the form nor calls onClose.
C25_InvokeGuarded ==
    modal.mounted =>
        LET call == modal.call
        IN  /\ call.invokes > 0 =>
                  /\ ~(call.method = "wallet"
                         /\ GreaterThan(call.amount, call.balance))
                  /\ call.method # "paystack"
                  /\ call.payments = 0
            /\ call.pc = "initializePayment" \/ call.path = "paystack" =>
                  /\ call.method = "paystack"
                  /\ call.payments = 1
                  /\ call.invokes = 0
                  /\ ~call.reset
                  /\ ~call.closed

\* C25 witness: a call made with 'paystack' has returned after the payment
\* was initialized, with the form as it was submitted.
C25_PaystackHandOff ==
    /\ modal.mounted
    /\ modal.call.path = "paystack"
    /\ modal.call.payments = 1
    /\ modal.selectedChamaId = "c1"
    /\ modal.amount = <<"1", "5", "0">>
    /\ modal.paymentMethod = "paystack"

\* A call made with 'wallet' and an amount above the balance has returned
\* without a backend call.
C25_WalletRefused ==
    /\ modal.mounted
    /\ modal.call.path = "insufficient"
    /\ modal.call.method = "wallet"
    /\ GreaterThan(modal.call.amount, modal.call.balance)
    /\ modal.call.invokes = 0
    /\ modal.call.payments = 0

-----------------------------------------------------------------------------
\* The exit paths of handleSubmit that follow setIsProcessing(true).
C26_ProcessingPaths ==
    {"insufficient", "paystack", "payment_failed", "success", "failed"}

\* C26: isProcessing is false whenever no handleSubmit call is in progress:
\* every call that has set it to true has set it back to false when it
\* returns, by whichever path (insufficient wallet balance, paystack
\* hand-off, backend success, backend error or thrown exception).
C26_IdleNotProcessing ==
    modal.mounted =>
        /\ ~InProgress(modal) => ~modal.isProcessing
        /\ InProgress(modal) => modal.isProcessing /\ modal.call.setTrue
        /\ modal.call.setTrue <=>
              InProgress(modal) \/ modal.call.path \in C26_ProcessingPaths

\* C26 witness: a call that set isProcessing has returned because the
\* backend call failed, and isProcessing is false again.
C26_ResetAfterFailure ==
    /\ modal.mounted
    /\ modal.call.setTrue
    /\ modal.call.path = "failed"
    /\ modal.call.invokes = 1
    /\ ~modal.isProcessing

====
